---- MODULE Spec2Model ----
(***************************************************************************)
(* ftabgen: control points -> cubic interpolant -> quantized table ->      *)
(* formatted table body -> header and source text (src/ftabgen.py).        *)
(*                                                                         *)
(* Text is a sequence of one-character strings.  A real number is kept     *)
(* exactly: (ip + fr[1]/rad + fr[2]/rad^2 + ...) / den with digits fr[i]    *)
(* in 0..rad-1, so that every intermediate stays inside TLC's integers.    *)
(* Slider positions are the multiples k/SliderSteps of the slider range.   *)
(***************************************************************************)
EXTENDS Integers, Sequences, FiniteSets, TLC

VARIABLES
    sl_val,            \* gc_sl[i].val, as a numerator over SliderSteps
    g_curve_y,         \* the global control-point array, same unit
    g_domain,          \* global g_domain
    g_range,           \* global g_range
    g_table_name,      \* global g_table_name
    g_table_src_body,  \* global g_table_src_body
    npy_file,          \* <g_table_name>.npy: <<>> when absent, else <<array>>
    printed,           \* arguments of the print() calls of the last handler
    ev,                \* the handler that ran last
    nev,               \* number of handlers run so far
    interp_spline_y    \* argument of a direct call of generate_table_body

vars == <<sl_val, g_curve_y, g_domain, g_range, g_table_name, g_table_src_body,
          npy_file, printed, ev, nev, interp_spline_y>>

(* ------------------------------ bounds --------------------------------- *)

\* a slider can rest on k/SliderSteps, k in 0..SliderSteps
SliderSteps == 1
\* handlers run in one session
MaxEvents == 3
\* longest sample sequence handed to generate_table_body directly
MaxFmtLen == 34

(* ------------------------- program constants --------------------------- *)

gc_byte_range == 256
gc_sl_n == 5
columns == 8
field_width == 6
g_domain_init == 128
g_range_init == 65536
g_left_x == 0
g_right_x == 1

\* g_bottom_y, g_top_y and g_sl_valinit (0.0, 1.0, 0.0) in slider steps
g_bottom_y == 0 * SliderSteps
g_top_y == 1 * SliderSteps
g_sl_valinit == 0 * SliderSteps

SliderIx == 0..(gc_sl_n - 1)

(* -------------------------------- text --------------------------------- *)

DecDigits == <<"0", "1", "2", "3", "4", "5", "6", "7", "8", "9">>
LowerCase == <<"a", "b", "c", "d", "e", "f", "g", "h", "i", "j", "k", "l", "m", "n", "o", "p", "q", "r", "s", "t", "u", "v", "w", "x", "y", "z">>
UpperCase == <<"A", "B", "C", "D", "E", "F", "G", "H", "I", "J", "K", "L", "M", "N", "O", "P", "Q", "R", "S", "T", "U", "V", "W", "X", "Y", "Z">>

\* str.upper()
upper(s) ==
    [i \in 1..Len(s) |->
        IF \E k \in 1..26 : LowerCase[k] = s[i]
        THEN UpperCase[CHOOSE k \in 1..26 : LowerCase[k] = s[i]]
        ELSE s[i]]

RECURSIVE str_nat(_)
str_nat(n) ==
    IF n < 10 THEN <<DecDigits[n + 1]>>
    ELSE Append(str_nat(n \div 10), DecDigits[(n % 10) + 1])

\* the decimal text an f-string gives an int
str(n) == IF n < 0 THEN <<"-">> \o str_nat(-n) ELSE str_nat(n)

\* format spec ">w": right-aligned, padded with spaces to at least w
rjust(s, w) == [i \in 1..(w - Len(s)) |-> " "] \o s

RECURSIVE int_digits(_, _)
int_digits(s, acc) ==
    IF s = <<>> THEN acc
    ELSE int_digits(Tail(s), 10 * acc + ((CHOOSE k \in 1..10 : DecDigits[k] = Head(s)) - 1))

\* int(label) of a decimal label
int_of(s) == int_digits(s, 0)

\* concatenation of the pieces ps[lo..hi]
RECURSIVE concat(_, _, _)
concat(ps, lo, hi) ==
    IF lo > hi THEN <<>>
    ELSE IF lo = hi THEN ps[lo]
    ELSE LET mid == (lo + hi) \div 2
         IN concat(ps, lo, mid) \o concat(ps, mid + 1, hi)

(* ---------------------------- exact reals ------------------------------ *)

\* digits i..1 of r times k, right to left; cy is the carry into digit i and
\* out the digits already done
RECURSIVE mul_digits(_, _, _, _, _)
mul_digits(r, k, i, cy, out) ==
    IF i = 0 THEN [r EXCEPT !.ip = r.ip * k + cy, !.fr = out]
    ELSE LET t == r.fr[i] * k + cy
         IN mul_digits(r, k, i - 1, t \div r.rad, <<t % r.rad>> \o out)

\* r * k for an integer k
real_mul(r, k) == mul_digits(r, k, Len(r.fr), 0, <<>>)

\* r / rad, one more fractional digit
real_shift(r) ==
    [r EXCEPT !.ip = r.ip \div r.rad, !.fr = <<r.ip % r.rad>> \o r.fr]

\* r + k/den for an integer k
real_add(r, k) == [r EXCEPT !.ip = r.ip + k]

\* int(r): truncation toward zero
real_int(r) ==
    LET zero_frac == \A i \in 1..Len(r.fr) : r.fr[i] = 0
    IN IF r.ip >= 0 THEN r.ip \div r.den
       ELSE IF zero_frac THEN -((-r.ip) \div r.den)
       ELSE -((-r.ip - 1) \div r.den)

(* --------------------------- interpolation ----------------------------- *)

\* f_spline with the slope at the middle knot taken from its two neighbours
\* only, (y3 - y1) / 2
f_spline_neighbours(ys, num, den) ==
    LET u  == (gc_sl_n - 1) * num - 2 * den
        b12 == 6 * (ys[3] - ys[1])
        c8  == -ys[0] + 8 * ys[1] - 14 * ys[2] + 8 * ys[3] - ys[4]
        d24 == IF u <= 0
               THEN 24 * (ys[2] - ys[1]) - 2 * b12 + 3 * c8
               ELSE 24 * (ys[3] - ys[2]) - 2 * b12 - 3 * c8
        sc  == 24 * SliderSteps
        times_t(r) == real_shift(real_mul(r, u))
        h0 == [ip |-> d24, fr |-> <<>>, rad |-> den, den |-> sc]
        h1 == real_add(times_t(h0), 3 * c8)
        h2 == real_add(times_t(h1), 2 * b12)
    IN real_add(times_t(h2), 24 * ys[2])

\* interp1d(g_curve_x, ys, kind='cubic') at x = num/den.  The cubic spline
\* through gc_sl_n = 5 evenly spaced knots with not-a-knot ends is one cubic
\* left of the middle knot and one right of it, joined C2 there.  With
\* t = (x - x2)/h, h the knot spacing, s(t) = y2 + b t + c t^2 + d t^3 where
\*   12 b = y0 - 8 y1 + 8 y3 - y4,   8 c = -y0 + 8 y1 - 14 y2 + 8 y3 - y4,
\*   d = y2 - y1 - b + c  (t <= 0),  d = y3 - y2 - b - c  (t >= 0).
\* The result is exact, scaled by 24 * SliderSteps.
f_spline(ys, num, den) ==
    LET u  == (gc_sl_n - 1) * num - 2 * den      \* t = u / den
        b12 == ys[0] - 8 * ys[1] + 8 * ys[3] - ys[4]
        c8  == -ys[0] + 8 * ys[1] - 14 * ys[2] + 8 * ys[3] - ys[4]
        d24 == IF u <= 0
               THEN 24 * (ys[2] - ys[1]) - 2 * b12 + 3 * c8
               ELSE 24 * (ys[3] - ys[2]) - 2 * b12 - 3 * c8
        sc  == 24 * SliderSteps
        times_t(r) == real_shift(real_mul(r, u))
        h0 == [ip |-> d24, fr |-> <<>>, rad |-> den, den |-> sc]
        h1 == real_add(times_t(h0), 3 * c8)
        h2 == real_add(times_t(h1), 2 * b12)
    IN real_add(times_t(h2), 24 * ys[2])

\* np.linspace(g_left_x, g_right_x, n)[j] as a fraction <<num, den>>
linspace(n, j) == <<g_left_x * (n - 1) + (g_right_x - g_left_x) * j, n - 1>>

(* ----------------------------- snippets -------------------------------- *)

\* table_cell with the comma after the value instead of before it
table_cell_comma_after(cnt, raw_y, range) ==
    LET y == real_int(real_mul(raw_y, range - 1))
    IN <<" ">> \o rjust(str(y), field_width) \o <<",">>
       \o (IF cnt % columns = 0 THEN <<"\n">> ELSE <<>>)
       \o (IF cnt % (columns * 4) = 0 THEN <<"\n">> ELSE <<>>)

\* what one pass of the loop of generate_table_body appends to acc
table_cell(cnt, raw_y, range) ==
    LET y == real_int(real_mul(raw_y, range - 1))
    IN (IF cnt = 1 THEN <<" ">> ELSE <<",">>) \o rjust(str(y), field_width)
       \o (IF cnt % columns = 0 THEN <<"\n">> ELSE <<>>)
       \o (IF cnt % (columns * 4) = 0 THEN <<"\n">> ELSE <<>>)

generate_table_body(is_y, range) ==
    concat([cnt \in 1..Len(is_y) |-> table_cell(cnt, is_y[cnt], range)], 1, Len(is_y))

g_table_src_body_init == <<"*", "*", "*", " ", "B", "o", "d", "y", " ", "n", "o", "t", " ", "y", "e", "t", " ", "g", "e", "n", "e", "r", "a", "t", "e", "d", " ", "*", "*", "*", "\n">>

\* the body plot_curve stores: the spline sampled on linspace(.., domain)
curve_body(ys, domain, range) ==
    generate_table_body(
        [k \in 1..domain |->
            f_spline(ys, linspace(domain, k - 1)[1], linspace(domain, k - 1)[2])],
        range)

\* domain_mask with the masks of 512 and 1024 exchanged
domain_mask_swapped(domain) ==
    IF domain = 128 THEN <<"0", "x", "7", "F">>
    ELSE IF domain = 256 THEN <<"0", "x", "F", "F">>
    ELSE IF domain = 512 THEN <<"0", "x", "3", "F", "F">>
    ELSE IF domain = 1024 THEN <<"0", "x", "1", "F", "F">>
    ELSE <<"?", "?">>

\* generate_source_files.domain_mask
domain_mask(domain) ==
    IF domain = 128 THEN <<"0", "x", "7", "F">>
    ELSE IF domain = 256 THEN <<"0", "x", "F", "F">>
    ELSE IF domain = 512 THEN <<"0", "x", "1", "F", "F">>
    ELSE IF domain = 1024 THEN <<"0", "x", "3", "F", "F">>
    ELSE <<"?", "?">>

\* elem_type with >= for >
elem_type_ge(range) ==
    IF range >= gc_byte_range THEN <<"u", "i", "n", "t", "1", "6">>
    ELSE <<"u", "i", "n", "t", "8">>

\* generate_source_files.elem_type
elem_type(range) ==
    IF range > gc_byte_range THEN <<"u", "i", "n", "t", "1", "6">>
    ELSE <<"u", "i", "n", "t", "8">>

auto_gen_label == <<"/", "*", " ", "A", "U", "T", "O", "G", "E", "N", "E", "R", "A", "T", "E", "D", " ", "F", "I", "L", "E", ".", " ", "D", "O", " ", "N", "O", "T", " ", "E", "D", "I", "T", ".", " ", "*", "/">>

\* the local `define`
guard_define(name) == upper(name) \o <<"_", "H", "_">>

domain_and_range(domain, range) ==
    <<"/", "*", "\n">>
    \o <<" ", " ", "D", "o", "m", "a", "i", "n", ":", " ", "0", ".", ".">> \o str(domain - 1) \o <<"\n">>
    \o <<" ", " ", "R", "a", "n", "g", "e", ":", " ", " ", "0", ".", ".">> \o str(range - 1) \o <<"\n">>
    \o <<"*", "/">>

table_inc_body(domain, range, name) ==
    auto_gen_label \o <<"\n">>
    \o domain_and_range(domain, range) \o <<"\n">>
    \o <<"#", "i", "f", "n", "d", "e", "f", " ">> \o guard_define(name) \o <<"\n">>
    \o <<"#", "d", "e", "f", "i", "n", "e", " ">> \o guard_define(name) \o <<"\n", "\n">>
    \o <<"#", "d", "e", "f", "i", "n", "e", " ">> \o upper(elem_type(range)) \o <<"_">> \o upper(name)
       \o <<"(", "x", ")", " ">> \o name \o <<"[", "(", "x", ")", " ", "&", " ">> \o domain_mask(domain) \o <<"]", "\n">>
    \o elem_type(range) \o <<"_", "t", " ">> \o name \o <<"[", "]", ";", "\n", "\n">>
    \o <<"#", "e", "n", "d", "i", "f", " ", "/", "*", " ">> \o guard_define(name) \o <<" ", "*", "/", "\n">>

table_src_head(domain, range, name) ==
    auto_gen_label \o <<"\n">>
    \o domain_and_range(domain, range) \o <<"\n">>
    \o <<"#", "i", "n", "c", "l", "u", "d", "e", " ", "\"">> \o name \o <<".", "h", "\"", "\n", "\n">>
    \o elem_type(range) \o <<"_", "t", " ">> \o name \o <<"[">> \o str(domain) \o <<"]", " ", "=", "\n">>
    \o <<"{", "\n">>

table_src_tail == <<"}", ";", "\n">>

\* the arguments of the four print() calls, in order
generate_source_files(domain, range, name, body) ==
    << table_inc_body(domain, range, name),
       table_src_head(domain, range, name),
       body,
       table_src_tail >>

(* ---------------------------- global state ----------------------------- *)

YConfigs == [SliderIx -> g_bottom_y..g_top_y]

\* the labels of the RadioButtons rbd
RadioLabels == << <<"1", "2", "8">>, <<"2", "5", "6">>, <<"5", "1", "2">>, <<"1", "0", "2", "4">> >>
RadioDomains == {int_of(RadioLabels[i]) : i \in 1..Len(RadioLabels)}

\* position of a control-point vector in YConfigs, counted from 1
y_levels == g_top_y - g_bottom_y + 1
config_ix(ys) ==
    1 + (ys[0] - g_bottom_y) + y_levels * ((ys[1] - g_bottom_y) + y_levels * ((ys[2] - g_bottom_y)
          + y_levels * ((ys[3] - g_bottom_y) + y_levels * (ys[4] - g_bottom_y))))
RECURSIVE config_digit(_, _)
config_digit(c, i) == IF i = 0 THEN c % y_levels ELSE config_digit(c \div y_levels, i - 1)
config_of(c) == [i \in SliderIx |-> g_bottom_y + config_digit(c - 1, i)]
radio_ix(domain) == CHOOSE k \in 1..Len(RadioLabels) : int_of(RadioLabels[k]) = domain

\* curve_body on every control-point vector and domain the widgets can
\* produce, evaluated once (\o makes the table explicit)
PlotTable ==
    [k \in 1..Len(RadioLabels) |->
        [c \in 1..Cardinality(YConfigs) |->
            curve_body(config_of(c), int_of(RadioLabels[k]), g_range_init)] \o <<>>] \o <<>>

\* the globals the handlers read and write, as one value
Globals ==
    [sl |-> sl_val, gy |-> g_curve_y, dom |-> g_domain, rng |-> g_range,
     body |-> g_table_src_body]

(* ------------------------------ helpers -------------------------------- *)

\* plot_curve: the stored table body is recomputed from g_curve_y, g_domain
plot_curve(m) ==
    [m EXCEPT !.body =
        IF m.dom \in RadioDomains /\ m.gy \in YConfigs /\ m.rng = g_range_init
        THEN PlotTable[radio_ix(m.dom)][config_ix(m.gy)]
        ELSE curve_body(m.gy, m.dom, m.rng)]

(* --------------------------- event handlers ---------------------------- *)

sliders_on_changed(m) ==
    plot_curve([m EXCEPT !.gy = [i \in SliderIx |-> m.sl[i]]])

\* set_val that stores val and calls no observer
set_val_silent(m, i, val) == [m EXCEPT !.sl[i] = val]

\* VertSlider.set_val: val is stored, then every observer is called; each
\* slider has the one observer main registers, sliders_on_changed
set_val(m, i, val) ==
    sliders_on_changed([m EXCEPT !.sl[i] = val])

\* VertSlider.reset
reset(m, i) ==
    IF m.sl[i] # g_sl_valinit THEN set_val(m, i, g_sl_valinit) ELSE m

\* VertSlider._update, from `val = event.ydata` on: the value is clamped to
\* [valmin, valmax] (closedmin, closedmax; no slidermin, slidermax)
slider_update(m, i, ydata) ==
    LET val == IF ydata <= g_bottom_y THEN g_bottom_y
               ELSE IF ydata >= g_top_y THEN g_top_y
               ELSE ydata
    IN set_val(m, i, val)

RECURSIVE reset_loop(_, _)
reset_loop(m, i) ==
    IF i = gc_sl_n THEN m ELSE reset_loop(reset(m, i), i + 1)

reset_button_on_clicked(m) == reset_loop(m, 0)

\* the loop of import_button_on_clicked over the loaded array
RECURSIVE import_loop(_, _, _)
import_loop(m, loaded, i) ==
    IF i = gc_sl_n THEN m ELSE import_loop(set_val(m, i, loaded[i]), loaded, i + 1)

\* import_button_on_clicked; g_curve_y in its body is a local
import_button_on_clicked(m, file) ==
    IF file # <<>>
    THEN plot_curve(import_loop(m, file[1], 0))
    ELSE m

\* export_button_on_clicked without its plot_curve()
export_without_plot(m) == m

\* export_button_on_clicked, up to the call of generate_source_files
export_button_on_clicked(m) == plot_curve(m)

domain_radios_on_clicked(m, label) == [m EXCEPT !.dom = int_of(label)]

(* ---------------------- the interactive session ------------------------ *)

\* the globals after the handler, written back
Store(m) ==
    /\ sl_val' = m.sl
    /\ g_curve_y' = m.gy
    /\ g_domain' = m.dom
    /\ g_table_src_body' = m.body
    /\ UNCHANGED <<g_range, g_table_name, interp_spline_y>>

\* the module-level globals, before main
Loaded ==
    /\ sl_val = [i \in SliderIx |-> g_sl_valinit]
    /\ g_curve_y = [i \in SliderIx |-> g_sl_valinit]
    /\ g_domain = g_domain_init
    /\ g_range = g_range_init
    /\ g_table_name = <<"t", "a", "b", "l", "e">>
    /\ printed = <<>>
    /\ nev = 0
    /\ interp_spline_y = <<>>

\* an array an earlier session's export left in <g_table_name>.npy
SavedEarlier == [i \in SliderIx |-> IF i \in {0, 2, 3} THEN g_top_y ELSE g_bottom_y]

\* main up to plt.show(): sliders at valinit, the initial plot drawn; the
\* .npy file is absent or left by an earlier session
Init ==
    /\ Loaded
    /\ npy_file \in {<<>>, <<SavedEarlier>>}
    /\ g_table_src_body =
          plot_curve([sl |-> sl_val, gy |-> g_curve_y, dom |-> g_domain,
                      rng |-> g_range, body |-> g_table_src_body_init]).body
    /\ ev = "main"

Slide ==
    /\ nev < MaxEvents
    /\ \E i \in SliderIx, ydata \in (g_bottom_y - 1)..(g_top_y + 1) :
          Store(slider_update(Globals, i, ydata))
    /\ ev' = "slider"
    /\ nev' = nev + 1
    /\ printed' = <<>>
    /\ UNCHANGED npy_file

ResetClick ==
    /\ nev < MaxEvents
    /\ Store(reset_button_on_clicked(Globals))
    /\ ev' = "reset"
    /\ nev' = nev + 1
    /\ printed' = <<>>
    /\ UNCHANGED npy_file

ExportClick ==
    /\ nev < MaxEvents
    /\ npy_file' = <<g_curve_y>>
    /\ Store(export_button_on_clicked(Globals))
    /\ printed' = generate_source_files(g_domain, g_range, g_table_name, g_table_src_body')
    /\ ev' = "export"
    /\ nev' = nev + 1

ImportClick ==
    /\ nev < MaxEvents
    /\ Store(import_button_on_clicked(Globals, npy_file))
    /\ ev' = "import"
    /\ nev' = nev + 1
    /\ printed' = <<>>
    /\ UNCHANGED npy_file

RadioClick ==
    /\ nev < MaxEvents
    /\ \E k \in 1..Len(RadioLabels) :
          Store(domain_radios_on_clicked(Globals, RadioLabels[k]))
    /\ ev' = "radio"
    /\ nev' = nev + 1
    /\ printed' = <<>>
    /\ UNCHANGED npy_file

Next == Slide \/ ResetClick \/ ExportClick \/ ImportClick \/ RadioClick

Spec == Init /\ [][Next]_vars

(* ----------------- generate_source_files called directly ---------------- *)

\* values of the globals g_domain, g_range and g_table_name the emitter is
\* called with
EmitDomains == {64, 100, 128, 256, 512, 1024, 2048}
EmitRanges == {2, 255, 256, 257, 65535, 65536}
EmitNames == { <<"t", "a", "b", "l", "e">>, <<"g", "a", "m", "m", "a", "2">> }

InitEmit ==
    /\ sl_val = [i \in SliderIx |-> g_sl_valinit]
    /\ g_curve_y = [i \in SliderIx |-> g_sl_valinit]
    /\ g_domain \in EmitDomains
    /\ g_range \in EmitRanges
    /\ g_table_name \in EmitNames
    /\ g_table_src_body = g_table_src_body_init
    /\ npy_file = <<>>
    /\ printed = <<>>
    /\ ev = "load"
    /\ nev = 0
    /\ interp_spline_y = <<>>

EmitCall ==
    /\ printed' = generate_source_files(g_domain, g_range, g_table_name, g_table_src_body)
    /\ ev' = "emit"
    /\ nev' = 1
    /\ UNCHANGED <<sl_val, g_curve_y, g_domain, g_range, g_table_name,
                   g_table_src_body, npy_file, interp_spline_y>>

NextEmit == EmitCall

SpecEmit == InitEmit /\ [][NextEmit]_vars

(* ------------------ generate_table_body called directly ----------------- *)

\* samples are the multiples k/FmtGrid
FmtGrid == 1024
sample(k) == [ip |-> k \div FmtGrid, fr |-> <<k % FmtGrid>>, rad |-> FmtGrid, den |-> 1]
sample_num(r) == r.ip * FmtGrid + r.fr[1]

\* the first two samples of a sequence are free; the later ones continue the
\* arithmetic progression they start, wrapped into [-FmtGrid/8, FmtGrid*5/4)
FmtFirst == {-(FmtGrid \div 8), 0, 1, FmtGrid \div 2, FmtGrid, (FmtGrid * 9) \div 8}
fmt_lo == -(FmtGrid \div 8)
fmt_span == (FmtGrid * 11) \div 8
fmt_next(is_y) ==
    IF Len(is_y) < 2 THEN FmtFirst
    ELSE LET a == sample_num(is_y[Len(is_y) - 1])
             b == sample_num(is_y[Len(is_y)])
         IN {fmt_lo + ((b + (b - a) - fmt_lo) % fmt_span)}

InitFormat ==
    /\ Loaded
    /\ npy_file = <<>>
    /\ g_table_src_body = g_table_src_body_init
    /\ ev = "load"

FormatCall ==
    /\ Len(interp_spline_y) < MaxFmtLen
    /\ \E k \in fmt_next(interp_spline_y) :
          interp_spline_y' = Append(interp_spline_y, sample(k))
    /\ g_table_src_body' = generate_table_body(interp_spline_y', g_range)
    /\ ev' = "format"
    /\ nev' = Len(interp_spline_y')
    /\ UNCHANGED <<sl_val, g_curve_y, g_domain, g_range, g_table_name, npy_file, printed>>

NextFormat == FormatCall

SpecFormat == InitFormat /\ [][NextFormat]_vars

(* ------------------------- reading text back --------------------------- *)

DigitSet == {DecDigits[k] : k \in 1..10}
digit_val(c) == (CHOOSE k \in 1..10 : DecDigits[k] = c) - 1
is_num(c) == c \in DigitSet \/ c = "-"

RECURSIVE read_nat(_, _, _)
read_nat(s, i, acc) ==
    IF i <= Len(s) /\ s[i] \in DigitSet
    THEN read_nat(s, i + 1, 10 * acc + digit_val(s[i]))
    ELSE acc

\* how many digits stand at s[i], s[i+1], ...
RECURSIVE digits_run(_, _)
digits_run(s, i) ==
    IF i <= Len(s) /\ s[i] \in DigitSet THEN 1 + digits_run(s, i + 1) ELSE 0

\* the decimal number whose text starts at s[i]
read_int(s, i) == IF s[i] = "-" THEN -read_nat(s, i + 1, 0) ELSE read_nat(s, i, 0)

\* where the numbers of s start
num_starts(s) == {i \in 1..Len(s) : is_num(s[i]) /\ (i = 1 \/ ~is_num(s[i - 1]))}

RECURSIVE first_num(_, _)
first_num(s, i) == IF is_num(s[i]) THEN i ELSE first_num(s, i + 1)

RECURSIVE last_num(_, _)
last_num(s, i) ==
    IF ~is_num(s[i]) THEN last_num(s, i - 1)
    ELSE IF i > 1 /\ is_num(s[i - 1]) THEN last_num(s, i - 1)
    ELSE i

has_at(s, p, i) ==
    /\ i + Len(p) - 1 <= Len(s)
    /\ \A k \in 1..Len(p) : s[i + k - 1] = p[k]
contains(s, p) == \E i \in 1..(Len(s) - Len(p) + 1) : has_at(s, p, i)

HexDigits == <<"0", "1", "2", "3", "4", "5", "6", "7", "8", "9", "A", "B", "C", "D", "E", "F">>
RECURSIVE hex_nat(_)
hex_nat(n) ==
    IF n < 16 THEN <<HexDigits[n + 1]>>
    ELSE Append(hex_nat(n \div 16), HexDigits[(n % 16) + 1])
hex(n) == <<"0", "x">> \o hex_nat(n)

\* int(q * k / d) for integers, d > 0: truncation toward zero
trunc_div(n, d) == IF n >= 0 THEN n \div d ELSE -((-n) \div d)

(* ------------------------------- claims -------------------------------- *)

\* C1: after a plot the table has exactly g_domain entries and every entry y
\* satisfies 0 <= y <= g_range - 1, overshoot of the interpolant included.
C1_EntriesInRange ==
    ev \in {"main", "slider", "export"} =>
        /\ Cardinality(num_starts(g_table_src_body)) = g_domain
        /\ \A i \in num_starts(g_table_src_body) :
              read_int(g_table_src_body, i) \in 0..(g_range - 1)

\* C2: with g_domain outside {128, 256, 512, 1024} generate_source_files
\* emits no text, and it never emits a header with a placeholder mask.
C2_UnsupportedDomainRejected ==
    ev = "emit" =>
        /\ g_domain \notin {128, 256, 512, 1024} => printed = <<>>
        /\ printed # <<>> => ~contains(printed[1], <<"?", "?">>)

\* C3: at an export the mask of the access macro is the hexadecimal of
\* g_domain - 1 and the array size of the source text is g_domain, for the
\* domain the radio buttons selected last.
C3_MaskAndSize ==
    ev = "export" =>
        /\ g_domain \in {128, 256, 512, 1024}
        /\ contains(printed[1],
               g_table_name \o <<"[", "(", "x", ")", " ", "&", " ">> \o hex(g_domain - 1) \o <<"]", "\n">>)
        /\ \E i \in 1..Len(printed[2]) :
              /\ has_at(printed[2], <<"_", "t", " ">> \o g_table_name \o <<"[">>, i)
              /\ read_nat(printed[2], i + Len(g_table_name) + 4, 0) = g_domain
              /\ has_at(printed[2], <<"]", " ", "=", "\n">>,
                        i + Len(g_table_name) + 4
                          + digits_run(printed[2], i + Len(g_table_name) + 4))
        /\ (g_domain = 128 => contains(printed[1], <<"0", "x", "7", "F">>))
        /\ (g_domain = 256 => contains(printed[1], <<"0", "x", "F", "F">>))
        /\ (g_domain = 512 => contains(printed[1], <<"0", "x", "1", "F", "F">>))
        /\ (g_domain = 1024 => contains(printed[1], <<"0", "x", "3", "F", "F">>))

C3_Witness == ev = "export" /\ g_domain = 1024

\* C4: the element type is uint16 when g_range > 256 and uint8 otherwise,
\* the same in the macro prefix, the header's declaration and the source's
\* definition.
C4_ElemType ==
    ev = "emit" =>
        LET t == IF g_range > 256 THEN <<"u", "i", "n", "t", "1", "6">> ELSE <<"u", "i", "n", "t", "8">>
            tu == IF g_range > 256 THEN <<"U", "I", "N", "T", "1", "6">> ELSE <<"U", "I", "N", "T", "8">>
            other == IF g_range > 256 THEN <<"u", "i", "n", "t", "8">> ELSE <<"u", "i", "n", "t", "1", "6">>
        IN /\ contains(printed[1], <<"#", "d", "e", "f", "i", "n", "e", " ">> \o tu \o <<"_">>)
           /\ contains(printed[1], <<"\n">> \o t \o <<"_", "t", " ">> \o g_table_name \o <<"[">>)
           /\ contains(printed[2], <<"\n">> \o t \o <<"_", "t", " ">> \o g_table_name \o <<"[">>)
           /\ ~contains(printed[1], other \o <<"_", "t", " ">>)
           /\ ~contains(printed[2], other \o <<"_", "t", " ">>)

C4_Witness == ev = "emit" /\ g_range = 256 /\ g_domain = 128

\* C5: generate_table_body emits the values in order, each right-aligned in
\* 6 characters, the first after one space and each later one after a comma,
\* a line break after every 8th value and one more after every 32nd, nothing
\* after the last value; 16 values give exactly 2 line breaks.
C5_Layout ==
    ev = "format" =>
        LET s == g_table_src_body
            n == Len(interp_spline_y)
            off(i) == 7 * (i - 1) + (i - 1) \div 8 + (i - 1) \div 32
            want(i) == trunc_div(sample_num(interp_spline_y[i]) * (g_range - 1), FmtGrid)
            lead(i) == Cardinality({j \in 1..6 : s[off(i) + 1 + j] = " "})
        IN /\ Len(s) = 7 * n + n \div 8 + n \div 32
           /\ \A i \in 1..n :
                /\ s[off(i) + 1] = (IF i = 1 THEN " " ELSE ",")
                /\ \A j \in 1..6 :
                      IF j <= lead(i) THEN s[off(i) + 1 + j] = " "
                      ELSE is_num(s[off(i) + 1 + j])
                /\ lead(i) < 6
                /\ read_int(SubSeq(s, off(i) + 2, off(i) + 7), lead(i) + 1) = want(i)
                /\ (i % 8 = 0 => s[off(i) + 8] = "\n")
                /\ (i % 32 = 0 => s[off(i) + 9] = "\n")
           /\ s[Len(s)] # ","
           /\ (n = 16 => Cardinality({j \in 1..Len(s) : s[j] = "\n"}) = 2)

C5_Witness == ev = "format" /\ Len(interp_spline_y) = 33

\* C6: the header is the warning and the domain/range summary, then the
\* include guard <UPPER(name)>_H_, the access macro expanding to
\* name[(x) & mask], and a declaration of the array marked extern.
C6_HeaderLayoutSansExtern ==
    ev = "export" =>
        LET h == printed[1]
            top == <<"/", "*", " ", "A", "U", "T", "O", "G", "E", "N", "E", "R", "A", "T", "E", "D", " ", "F", "I", "L", "E", ".", " ", "D", "O", " ", "N", "O", "T", " ", "E", "D", "I", "T", ".", " ", "*", "/">> \o <<"\n">> \o <<"/", "*", "\n">>
                   \o <<" ", " ", "D", "o", "m", "a", "i", "n", ":", " ", "0", ".", ".">> \o str_nat(g_domain - 1) \o <<"\n">>
                   \o <<" ", " ", "R", "a", "n", "g", "e", ":", " ", " ", "0", ".", ".">> \o str_nat(g_range - 1) \o <<"\n">>
                   \o <<"*", "/">> \o <<"\n">>
                   \o <<"#", "i", "f", "n", "d", "e", "f", " ">> \o <<"T", "A", "B", "L", "E", "_", "H", "_">> \o <<"\n">>
                   \o <<"#", "d", "e", "f", "i", "n", "e", " ">> \o <<"T", "A", "B", "L", "E", "_", "H", "_">> \o <<"\n">>
        IN /\ has_at(h, top, 1)
           /\ contains(h, <<"#", "d", "e", "f", "i", "n", "e", " ">> \o <<"U", "I", "N", "T", "1", "6", "_", "T", "A", "B", "L", "E", "(", "x", ")", " ">>
                          \o g_table_name \o <<"[", "(", "x", ")", " ", "&", " ">> \o hex(g_domain - 1) \o <<"]", "\n">>)
           /\ contains(h, <<"u", "i", "n", "t", "1", "6">> \o <<"_", "t", " ">> \o g_table_name \o <<"[", "]", ";">>)

C6_HeaderLayout ==
    /\ C6_HeaderLayoutSansExtern
    /\ ev = "export" =>
          contains(printed[1], <<"e", "x", "t", "e", "r", "n", " ">> \o <<"u", "i", "n", "t", "1", "6">> \o <<"_", "t", " ">> \o g_table_name \o <<"[", "]", ";">>)

\* C7: the interpolant at each control point's abscissa is that control
\* point's value, and the first and last table entries are the quantized
\* first and last control-point values.
C7_Knots ==
    /\ \A i \in SliderIx :
          LET r == f_spline(g_curve_y, linspace(gc_sl_n, i)[1], linspace(gc_sl_n, i)[2])
          IN /\ r.ip * SliderSteps = g_curve_y[i] * r.den
             /\ \A k \in 1..Len(r.fr) : r.fr[k] = 0
    /\ LET s == g_table_src_body
       IN /\ read_int(s, first_num(s, 1))
                = trunc_div(g_curve_y[0] * (g_range - 1), SliderSteps)
          /\ read_int(s, last_num(s, Len(s)))
                = trunc_div(g_curve_y[gc_sl_n - 1] * (g_range - 1), SliderSteps)

C7_Witness ==
    /\ ev = "slider"
    /\ g_curve_y[0] = g_top_y
    /\ g_curve_y[1] = g_bottom_y
    /\ g_curve_y[2] = g_top_y

\* C8: what an export prints is decided by the control points and the
\* configuration at that moment: the body is the table of the current
\* g_curve_y with g_domain entries, never the placeholder nor a stale
\* table, and an export right after an export prints the same text.
C8_StateAtExport ==
    ev = "export" =>
        /\ printed = generate_source_files(g_domain, g_range, g_table_name,
                         PlotTable[radio_ix(g_domain)][config_ix(g_curve_y)])
        /\ printed[3] # g_table_src_body_init
        /\ Cardinality({i \in 1..Len(printed[3]) : printed[3][i] = ","}) + 1 = g_domain
        /\ read_int(printed[3], first_num(printed[3], 1))
              = trunc_div(g_curve_y[0] * (g_range - 1), SliderSteps)

C8_ExportFresh ==
    /\ []C8_StateAtExport
    /\ [][(ev = "export" /\ ev' = "export") => printed' = printed]_vars

C8_Witness ==
    /\ ev = "export"
    /\ g_domain # g_domain_init
    /\ g_curve_y[0] # g_sl_valinit

\* C9: between handlers the stored table has exactly g_domain entries.
C9_StoredTableMatchesDomain ==
    Cardinality({i \in 1..Len(g_table_src_body) : g_table_src_body[i] = ","}) + 1 = g_domain

\* C10: after every handler g_curve_y agrees with the sliders; after an
\* import of a saved array it is the loaded array, after a reset it is the
\* sliders' initial value.
C10_SlidersAgree ==
    /\ \A i \in SliderIx : g_curve_y[i] = sl_val[i]
    /\ (ev = "import" /\ npy_file # <<>>) =>
          \A i \in SliderIx : g_curve_y[i] = npy_file[1][i]
    /\ ev = "reset" => \A i \in SliderIx : g_curve_y[i] = g_sl_valinit

C10_Witness ==
    /\ ev = "import"
    /\ nev = 1
    /\ npy_file # <<>>
    /\ \E i \in SliderIx : g_curve_y[i] # g_sl_valinit

====
